---------------------------- MODULE Spec2Model ----------------------------
(***************************************************************************)
(* Model of the motion-surveillance pipeline of app.py: the acquisition    *)
(* thread (generate_frames), the MJPEG stream consumers                    *)
(* (generate_video_feed), the notifier threads (send_email_alert,          *)
(* send_sms_alert), the event query (get_motion_events) and the settings   *)
(* update (update_settings), over the module's global variables.           *)
(*                                                                         *)
(* Time is counted in whole seconds.  Every action is one step of one      *)
(* thread.  Python gives no atomicity beyond single loads and stores, so   *)
(* an action holds at most one access to a global that another thread     *)
(* reads or writes; statements on locals are grouped with it.              *)
(*                                                                         *)
(* cv2.imwrite reports a file it cannot write by returning False; line 200 *)
(* drops that value.  cv2.cvtColor raises on a frame of None.              *)
(***************************************************************************)
EXTENDS Integers, Sequences, FiniteSets, TLC

\* Python's None, for the variables that hold frames, images and records.
None == [kind |-> "None"]

\* None for the global camera.
NoCamera == "None"

\* None for the variables that hold a time.
NoTime == -1

\* No shutdown of the process has been requested.
NotRequested == -1

(***************************************************************************)
(* Program constants.                                                      *)
(***************************************************************************)
motion_threshold == 5000
DiffCutoff == 25
DilateIterations == 2
Cooldown == 5
MaxEvents == 20

(***************************************************************************)
(* Bounds of the model.                                                    *)
(***************************************************************************)
\* Spec: the clock stops at MaxTime, the camera delivers at most MaxReads
\* frames inside the loop.
MaxTime == 7
MaxReads == 5
\* SpecLog and SpecQuery: the loop's sleep lasts LogStep seconds, the camera
\* delivers at most LogMaxReads frames and at most MaxQuiet (SpecLog) or
\* QueryMaxQuiet (SpecQuery) processed frames show no motion.
LogStep == 3
LogMaxReads == 44
MaxQuiet == 2
QueryMaxQuiet == 1
\* SpecStream and SpecNotify: the camera delivers at most this many frames.
StreamMaxReads == 3
NotifyMaxReads == 3
\* SpecNotify: update_settings is requested at most MaxPosts times.
MaxPosts == 1

(***************************************************************************)
(* Frames.  A frame is a black 640x480 image with three rectangular        *)
(* regions far apart from each other and from the border; a frame gives    *)
(* each region one BGR colour.                                             *)
(***************************************************************************)
Regions == {"small", "edge", "large"}

\* Width and height of a region, in pixels.
RegionWidth(r) ==
    CASE r = "small" -> 50
      [] r = "edge" -> 47
      [] r = "large" -> 100

RegionHeight(r) ==
    CASE r = "small" -> 50
      [] r = "edge" -> 97
      [] r = "large" -> 100

Black == <<0, 0, 0>>
Dim == <<20, 20, 20>>
White == <<255, 255, 255>>

Colours == {Black, Dim, White}

Frame == [Regions -> Colours]

Still == [r \in Regions |-> Black]
Flicker == [r \in Regions |-> IF r = "large" THEN Dim ELSE Black]
Cat == [r \in Regions |-> IF r = "small" THEN White ELSE Black]
Intruder == [r \in Regions |-> IF r = "large" THEN White ELSE Black]

\* The frames the camera of the model delivers.
CameraFrames == {Still, Intruder}

\* np.zeros((480, 640, 3)) with the text "Camera not available".
blank_frame == [kind |-> "placeholder", text |-> "Camera not available"]

Abs(x) == IF x < 0 THEN -x ELSE x

\* cv2.cvtColor(.., COLOR_BGR2GRAY) of one pixel <<b, g, r>>, in OpenCV's
\* 14-bit fixed point.
cvtColor(c) == (c[3] * 4899 + c[2] * 9617 + c[1] * 1868 + 8192) \div 16384

\* cv2.absdiff of the two grayscale images, per region.
absdiff(f1, f2) == [r \in Regions |-> Abs(cvtColor(f1[r]) - cvtColor(f2[r]))]

\* cv2.threshold(.., 25, 255, THRESH_BINARY): the regions whose difference is
\* above the cutoff.
threshold(diff) == {r \in Regions : diff[r] > DiffCutoff}

\* cv2.dilate with the 3x3 kernel grows a rectangle by one pixel on each
\* side per iteration; cv2.contourArea of the outline of a w x h block of
\* pixels is (w - 1) * (h - 1).
contourArea(r) ==
    LET w == RegionWidth(r) + 2 * DilateIterations
        h == RegionHeight(r) + 2 * DilateIterations
    IN (w - 1) * (h - 1)

RECURSIVE SumArea(_)
SumArea(cs) ==
    IF cs = {} THEN 0
    ELSE LET c == CHOOSE x \in cs : TRUE
         IN contourArea(c) + SumArea(cs \ {c})

\* Mutant of IsMotion: an area equal to the threshold counts as motion.
IsMotionInclusive(total_area) == total_area >= motion_threshold

\* total_area > motion_threshold
IsMotion(total_area) == total_area > motion_threshold

detect_motion(frame1, frame2) ==
    LET thresh == threshold(absdiff(frame1, frame2))
        total_area == SumArea(thresh)
    IN [motion |-> IsMotion(total_area), thresh |-> thresh,
        contours |-> thresh, total_area |-> total_area]

\* datetime.now().strftime("%Y-%m-%d %H:%M:%S")
FormatTimestamp(t) == [kind |-> "timestamp", second |-> t]

\* f"motion_{datetime.now().strftime('%Y%m%d_%H%M%S')}.jpg"
MakeFilename(t) == [kind |-> "filename", prefix |-> "motion_", second |-> t, ext |-> ".jpg"]

\* os.path.join(app.config['UPLOAD_FOLDER'], filename)
MakeFilepath(name) == [kind |-> "path", folder |-> "static/captures", name |-> name]

\* f"http://yourdomain.com/static/captures/{filename}"
MakeUrl(name) ==
    [kind |-> "url", base |-> "http://yourdomain.com/static/captures/", name |-> name]

\* frame.copy() with the contours and the timestamp drawn on it.
Annotate(f, cs, ts) == [kind |-> "annotated", base |-> f, contours |-> cs, stamp |-> ts]

\* cv2.imencode(".jpg", frame)
imencode(f) == [kind |-> "jpeg", data |-> f]


(***************************************************************************)
(* State.                                                                  *)
(***************************************************************************)
VARIABLES
    clock,              \* the wall clock read by time.time() and datetime.now()
    camera,             \* global camera: NoCamera, "unopened" or "opened"
    output_frame,       \* global output_frame
    lock,               \* holder of the global lock, or "free"
    motion_detected,    \* global motion_detected
    last_motion_time,   \* global last_motion_time
    frame_count,        \* global frame_count
    motion_events,      \* global motion_events, newest first
    settings,           \* the two enabled flags of the global settings
    pc,                 \* position of the acquisition thread in generate_frames
    prev_frame,         \* locals of generate_frames; an unbound local holds
    frame,              \* None, NoTime, FALSE (motion) or {} (contours)
    motion,
    contours,
    frame_with_contours,
    timestamp,
    current_time,
    filename,
    files,              \* the snapshots under UPLOAD_FOLDER
    threads,            \* the notifier threads started so far
    printed,            \* the diagnostics printed so far
    cpc,                \* position of each stream consumer in generate_video_feed
    encoded_image,      \* local of each stream consumer
    yielded,            \* what each stream consumer yielded last
    rpc,                \* position of the get_motion_events request
    response,           \* its last response
    upc,                \* position of the update_settings request
    form,               \* its request.form
    posts,              \* history: the number of update_settings requests
    detections,         \* history: current_time of every positive detection
    created,            \* history: every event inserted, with its current_time
    shutdown_at,        \* history: frame_count when the process was asked to
                        \* shut down, or NotRequested
    track_dispatch      \* whether the history of the enabled flags at the
                        \* start of the notifier threads is kept

globals == <<camera, output_frame, lock, motion_detected, last_motion_time,
             frame_count, motion_events, settings>>
locals == <<pc, prev_frame, frame, motion, contours, frame_with_contours,
            timestamp, current_time, filename>>
locals_but_pc == <<prev_frame, frame, motion, contours, frame_with_contours,
                   timestamp, current_time, filename>>
world == <<clock, files, threads, printed>>
consumers == <<cpc, encoded_image, yielded>>
requests == <<rpc, response, upc, form, posts>>
history == <<detections, created>>
main == <<shutdown_at, track_dispatch>>

vars == <<globals, locals, world, consumers, requests, history, main>>

Consumers == {"c1", "c2"}

\* The program after the module has been loaded.
Loaded ==
    /\ clock = 0
    /\ camera = NoCamera
    /\ output_frame = None
    /\ lock = "free"
    /\ motion_detected = FALSE
    /\ last_motion_time = NoTime
    /\ frame_count = 0
    /\ motion_events = <<>>
    /\ settings = [email |-> FALSE, twilio |-> FALSE]
    /\ pc = "init"
    /\ prev_frame = None
    /\ frame = None
    /\ motion = FALSE
    /\ contours = {}
    /\ frame_with_contours = None
    /\ timestamp = None
    /\ current_time = NoTime
    /\ filename = None
    /\ files = {}
    /\ threads = {}
    /\ printed = {}
    /\ cpc = [c \in Consumers |-> "acquire"]
    /\ encoded_image = [c \in Consumers |-> None]
    /\ yielded = [c \in Consumers |-> None]
    /\ rpc = "idle"
    /\ response = None
    /\ upc = "idle"
    /\ form = None
    /\ posts = 0
    /\ detections = <<>>
    /\ created = <<>>
    /\ shutdown_at = NotRequested

Init == Loaded /\ track_dispatch = FALSE

\* The same start, with the history of the enabled flags at thread start.
InitDispatch == Loaded /\ track_dispatch = TRUE

\* The acquisition thread at line 175 of its first iteration, with any two
\* frames read from the camera.
InitDetect ==
    /\ clock = 0
    /\ camera = "opened"
    /\ output_frame = None
    /\ lock = "free"
    /\ motion_detected = FALSE
    /\ last_motion_time = NoTime
    /\ frame_count = 0
    /\ motion_events = <<>>
    /\ settings = [email |-> FALSE, twilio |-> FALSE]
    /\ pc = "detect"
    /\ prev_frame \in Frame
    /\ frame \in Frame
    /\ motion = FALSE
    /\ contours = {}
    /\ frame_with_contours = None
    /\ timestamp = None
    /\ current_time = NoTime
    /\ filename = None
    /\ files = {}
    /\ threads = {}
    /\ printed = {}
    /\ cpc = [c \in Consumers |-> "acquire"]
    /\ encoded_image = [c \in Consumers |-> None]
    /\ yielded = [c \in Consumers |-> None]
    /\ rpc = "idle"
    /\ response = None
    /\ upc = "idle"
    /\ form = None
    /\ posts = 0
    /\ detections = <<>>
    /\ created = <<>>
    /\ shutdown_at = NotRequested
    /\ track_dispatch = FALSE

(***************************************************************************)
(* The clock.                                                              *)
(***************************************************************************)
Tick(d) ==
    /\ clock' = clock + d
    /\ UNCHANGED <<globals, locals, files, threads, printed, consumers,
                   requests, history, main>>

(***************************************************************************)
(* generate_frames: camera initialisation.                                 *)
(***************************************************************************)
\* cv2.VideoCapture(0) succeeded and isOpened() is true.
OpenCamera ==
    /\ pc = "init"
    /\ camera = NoCamera
    /\ camera' = "opened"
    /\ pc' = "first_read"
    /\ UNCHANGED <<output_frame, lock, motion_detected, last_motion_time,
                   frame_count, motion_events, settings, prev_frame, frame,
                   motion, contours, frame_with_contours, timestamp,
                   current_time, filename, world, consumers, requests, history,
                   main>>

\* isOpened() is false: the camera object exists, the placeholder follows.
OpenCameraNotOpened ==
    /\ pc = "init"
    /\ camera = NoCamera
    /\ camera' = "unopened"
    /\ printed' = printed \cup {"Error: Could not open camera."}
    /\ pc' = "blank_lock"
    /\ UNCHANGED <<output_frame, lock, motion_detected, last_motion_time,
                   frame_count, motion_events, settings, prev_frame, frame,
                   motion, contours, frame_with_contours, timestamp,
                   current_time, filename, clock, files, threads, consumers,
                   requests, history, main>>

\* cv2.VideoCapture(0) raised: camera stays None, the placeholder follows.
OpenCameraRaises ==
    /\ pc = "init"
    /\ camera = NoCamera
    /\ printed' = printed \cup {"Camera error"}
    /\ pc' = "blank_lock"
    /\ UNCHANGED <<globals, prev_frame, frame, motion, contours,
                   frame_with_contours, timestamp, current_time, filename,
                   clock, files, threads, consumers, requests, history, main>>

\* Mutant of CanAcquire: the with block does not wait for the lock.
CanAcquireAlways(holder) == TRUE

\* Whether the lock can be taken: threading.Lock is not reentrant.
CanAcquire(holder) == holder = "free"

\* with lock: (placeholder)
BlankAcquire ==
    /\ pc = "blank_lock"
    /\ CanAcquire(lock)
    /\ lock' = "loop"
    /\ pc' = "blank_write"
    /\ UNCHANGED <<camera, output_frame, motion_detected, last_motion_time,
                   frame_count, motion_events, settings, prev_frame, frame,
                   motion, contours, frame_with_contours, timestamp,
                   current_time, filename, world, consumers, requests, history,
                   main>>

\* Mutant of BlankWrite: the placeholder is built and never published.
BlankWriteNothing ==
    /\ pc = "blank_write"
    /\ pc' = "blank_release"
    /\ UNCHANGED <<globals, locals_but_pc, world, consumers, requests, history,
                   main>>

\* output_frame = blank_frame.copy()
BlankWrite ==
    /\ pc = "blank_write"
    /\ output_frame' = blank_frame
    /\ pc' = "blank_release"
    /\ UNCHANGED <<camera, lock, motion_detected, last_motion_time,
                   frame_count, motion_events, settings, prev_frame, frame,
                   motion, contours, frame_with_contours, timestamp,
                   current_time, filename, world, consumers, requests, history,
                   main>>

\* end of the with block, then return
BlankRelease ==
    /\ pc = "blank_release"
    /\ lock' = "free"
    /\ pc' = "returned"
    /\ UNCHANGED <<camera, output_frame, motion_detected, last_motion_time,
                   frame_count, motion_events, settings, prev_frame, frame,
                   motion, contours, frame_with_contours, timestamp,
                   current_time, filename, world, consumers, requests, history,
                   main>>

(***************************************************************************)
(* generate_frames: the loop.                                              *)
(***************************************************************************)
\* _, prev_frame = camera.read(): a frame, or None when the read fails.
FirstRead(f) ==
    /\ pc = "first_read"
    /\ prev_frame' = f
    /\ pc' = "read"
    /\ UNCHANGED <<globals, frame, motion, contours, frame_with_contours,
                   timestamp, current_time, filename, world, consumers,
                   requests, history, main>>

\* Mutant of ReadOk: a frame that is skipped becomes the previous frame.
ReadOkKeepsSkipped(f) ==
    /\ pc = "read"
    /\ frame' = f
    /\ prev_frame' = IF frame_count % 2 = 0 THEN prev_frame ELSE f
    /\ pc' = IF frame_count % 2 = 0 THEN "detect" ELSE "count"
    /\ UNCHANGED <<globals, motion, contours, frame_with_contours,
                   timestamp, current_time, filename, world, consumers,
                   requests, history, main>>

\* success, frame = camera.read() with success true, then the test of
\* frame_count % 2.
ReadOk(f) ==
    /\ pc = "read"
    /\ frame' = f
    /\ pc' = IF frame_count % 2 = 0 THEN "detect" ELSE "count"
    /\ UNCHANGED <<globals, prev_frame, motion, contours, frame_with_contours,
                   timestamp, current_time, filename, world, consumers,
                   requests, history, main>>

\* Where the loop goes when camera.read() reports no success: break.
AfterFailedRead == "returned"

\* success, frame = camera.read() with success false.
ReadFail ==
    /\ pc = "read"
    /\ frame' = None
    /\ pc' = AfterFailedRead
    /\ UNCHANGED <<globals, prev_frame, motion, contours, frame_with_contours,
                   timestamp, current_time, filename, world, consumers,
                   requests, history, main>>

\* detect_motion(prev_frame, frame) on a prev_frame of None: cv2.cvtColor
\* raises, nothing in generate_frames catches it, the thread ends.
DetectRaises ==
    /\ pc = "detect"
    /\ prev_frame = None
    /\ pc' = "crashed"
    /\ UNCHANGED <<globals, prev_frame, frame, motion, contours,
                   frame_with_contours, timestamp, current_time, filename,
                   world, consumers, requests, history, main>>

\* Mutant of Detect: the contours and the timestamp are drawn on frame
\* itself, frame_with_contours is the same image.
DetectDrawsOnFrame ==
    /\ pc = "detect"
    /\ prev_frame # None
    /\ LET d == detect_motion(prev_frame, frame)
           ts == FormatTimestamp(clock)
       IN /\ motion' = d.motion
          /\ contours' = d.contours
          /\ timestamp' = ts
          /\ frame_with_contours' = Annotate(frame, d.contours, ts)
          /\ frame' = Annotate(frame, d.contours, ts)
    /\ prev_frame' = frame
    /\ pc' = "debounce"
    /\ UNCHANGED <<globals, current_time, filename, world, consumers,
                   requests, history, main>>

\* Lines 175-187: detection, prev_frame, the annotated copy.
Detect ==
    /\ pc = "detect"
    /\ prev_frame # None
    /\ LET d == detect_motion(prev_frame, frame)
           ts == FormatTimestamp(clock)
       IN /\ motion' = d.motion
          /\ contours' = d.contours
          /\ timestamp' = ts
          /\ frame_with_contours' = Annotate(frame, d.contours, ts)
    /\ prev_frame' = frame
    /\ pc' = "debounce"
    /\ UNCHANGED <<globals, frame, current_time, filename, world, consumers,
                   requests, history, main>>

\* Mutant of CooldownElapsed: the cooldown ends after 5 seconds, not after
\* more than 5.
CooldownElapsedInclusive(now, last) == last = NoTime \/ now - last >= Cooldown

\* last_motion_time is None or (current_time - last_motion_time) > 5
CooldownElapsed(now, last) == last = NoTime \/ now - last > Cooldown

\* Mutant of Debounce: a detection inside the cooldown restarts the cooldown.
DebounceExtendsCooldown ==
    /\ pc = "debounce"
    /\ current_time' = clock
    /\ detections' = IF motion THEN Append(detections, clock) ELSE detections
    /\ last_motion_time' = IF motion THEN clock ELSE last_motion_time
    /\ IF motion /\ CooldownElapsed(clock, last_motion_time)
       THEN /\ motion_detected' = TRUE
            /\ pc' = "save"
       ELSE /\ UNCHANGED motion_detected
            /\ pc' = "pub_lock"
    /\ UNCHANGED <<camera, output_frame, lock, frame_count, motion_events,
                   settings, prev_frame, frame, motion, contours,
                   frame_with_contours, timestamp, filename, world, consumers,
                   requests, created, main>>

\* Lines 190-195: current_time, the cooldown test, last_motion_time.
Debounce ==
    /\ pc = "debounce"
    /\ current_time' = clock
    /\ detections' = IF motion THEN Append(detections, clock) ELSE detections
    /\ IF motion /\ CooldownElapsed(clock, last_motion_time)
       THEN /\ motion_detected' = TRUE
            /\ last_motion_time' = clock
            /\ pc' = "save"
       ELSE /\ UNCHANGED <<motion_detected, last_motion_time>>
            /\ pc' = "pub_lock"
    /\ UNCHANGED <<camera, output_frame, lock, frame_count, motion_events,
                   settings, prev_frame, frame, motion, contours,
                   frame_with_contours, timestamp, filename, world, consumers,
                   requests, created, main>>

\* The files after cv2.imwrite(path, content) succeeded.
imwrite(fs, path, content) ==
    {x \in fs : x.path # path} \cup {[path |-> path, content |-> content]}

\* Mutant of AfterSave: a snapshot that cannot be written raises.
AfterSaveRaises(ok) == IF ok THEN "insert" ELSE "crashed"

\* Where the loop goes after cv2.imwrite, whatever it returned: the return
\* value is dropped.
AfterSave(ok) == "insert"

\* Lines 198-200: filename, filepath, cv2.imwrite(filepath, frame).  imwrite
\* returns False when the file cannot be written.
Save(ok) ==
    /\ pc = "save"
    /\ filename' = MakeFilename(clock)
    /\ files' = IF ok THEN imwrite(files, MakeFilepath(MakeFilename(clock)), frame)
                ELSE files
    /\ pc' = AfterSave(ok)
    /\ UNCHANGED <<globals, prev_frame, frame, motion, contours,
                   frame_with_contours, timestamp, current_time, clock,
                   threads, printed, consumers, requests, history, main>>

\* Mutant of InsertEvent: the event is appended at the tail.
InsertEventAtTail(events, e) == Append(events, e)

\* motion_events.insert(0, e)
InsertEvent(events, e) == <<e>> \o events

\* Lines 203-207.
Insert ==
    /\ pc = "insert"
    /\ LET e == [timestamp |-> timestamp, image |-> filename,
                 path |-> MakeFilepath(filename)]
       IN /\ motion_events' = InsertEvent(motion_events, e)
          /\ created' = Append(created, [time |-> current_time, event |-> e])
    /\ pc' = "trim"
    /\ UNCHANGED <<camera, output_frame, lock, motion_detected,
                   last_motion_time, frame_count, settings, prev_frame, frame,
                   motion, contours, frame_with_contours, timestamp,
                   current_time, filename, world, consumers, requests,
                   detections, main>>

\* Mutant of TrimEvents: the log is cut one entry too late.
TrimEventsLate(events) ==
    IF Len(events) > MaxEvents + 1 THEN SubSeq(events, 1, MaxEvents) ELSE events

\* if len(motion_events) > 20: motion_events = motion_events[:20]
TrimEvents(events) ==
    IF Len(events) > MaxEvents THEN SubSeq(events, 1, MaxEvents) ELSE events

\* Lines 210-211.
Trim ==
    /\ pc = "trim"
    /\ motion_events' = TrimEvents(motion_events)
    /\ pc' = "email"
    /\ UNCHANGED <<camera, output_frame, lock, motion_detected,
                   last_motion_time, frame_count, settings, locals_but_pc,
                   world, consumers, requests, history, main>>

\* The enabled flag of the notifier that a thread target stands for.
Enabled(target) ==
    IF target = "send_email_alert" THEN settings.email ELSE settings.twilio

\* A thread as threading.Thread(target, args).start() leaves it: the threads
\* are numbered in the order of their creation; attempts counts the sends
\* the thread has tried; dispatched_enabled is history, kept under
\* track_dispatch: the enabled flag of its notifier when the thread was
\* started (the loop does not read the flag).
NewThread(target, arg) ==
    [id |-> Cardinality(threads) + 1, target |-> target, arg |-> arg,
     pc |-> "start", result |-> "pending", attempts |-> 0,
     dispatched_enabled |-> track_dispatch /\ Enabled(target)]

\* threading.Thread(target=send_email_alert, args=(filepath,)).start()
StartEmail ==
    /\ pc = "email"
    /\ threads' = threads \cup {NewThread("send_email_alert", MakeFilepath(filename))}
    /\ pc' = "sms"
    /\ UNCHANGED <<globals, locals_but_pc, clock, files, printed, consumers,
                   requests, history, main>>

\* Mutant of StartSms: the loop joins the email thread before it goes on.
StartSmsAfterJoin ==
    /\ pc = "sms"
    /\ \E t \in threads :
         /\ t.target = "send_email_alert"
         /\ t.arg = MakeFilepath(filename)
         /\ t.pc = "done"
    /\ threads' = threads \cup {NewThread("send_sms_alert", MakeUrl(filename))}
    /\ pc' = "pub_lock"
    /\ UNCHANGED <<globals, locals_but_pc, clock, files, printed, consumers,
                   requests, history, main>>

\* threading.Thread(target=send_sms_alert, args=(url,)).start()
StartSms ==
    /\ pc = "sms"
    /\ threads' = threads \cup {NewThread("send_sms_alert", MakeUrl(filename))}
    /\ pc' = "pub_lock"
    /\ UNCHANGED <<globals, locals_but_pc, clock, files, printed, consumers,
                   requests, history, main>>

\* with lock:
PublishAcquire ==
    /\ pc = "pub_lock"
    /\ CanAcquire(lock)
    /\ lock' = "loop"
    /\ pc' = "pub_write"
    /\ UNCHANGED <<camera, output_frame, motion_detected, last_motion_time,
                   frame_count, motion_events, settings, locals_but_pc, world,
                   consumers, requests, history, main>>

\* output_frame = frame_with_contours.copy()
PublishWrite ==
    /\ pc = "pub_write"
    /\ output_frame' = frame_with_contours
    /\ pc' = "pub_release"
    /\ UNCHANGED <<camera, lock, motion_detected, last_motion_time,
                   frame_count, motion_events, settings, locals_but_pc, world,
                   consumers, requests, history, main>>

\* end of the with block
PublishRelease ==
    /\ pc = "pub_release"
    /\ lock' = "free"
    /\ pc' = "count"
    /\ UNCHANGED <<camera, output_frame, motion_detected, last_motion_time,
                   frame_count, motion_events, settings, locals_but_pc, world,
                   consumers, requests, history, main>>

\* Lines 222-225: frame_count += 1, time.sleep(0.01), back to the head of the
\* loop.  Every local but prev_frame is written before it is read again; the
\* model clears them here.
Count ==
    /\ pc = "count"
    /\ frame_count' = frame_count + 1
    /\ pc' = "sleep"
    /\ frame' = None
    /\ motion' = FALSE
    /\ contours' = {}
    /\ frame_with_contours' = None
    /\ timestamp' = None
    /\ current_time' = NoTime
    /\ filename' = None
    /\ UNCHANGED <<camera, output_frame, lock, motion_detected,
                   last_motion_time, motion_events, settings, prev_frame,
                   world, consumers, requests, history, main>>

\* time.sleep(0.01) returns after d whole seconds.
Sleep(d) ==
    /\ pc = "sleep"
    /\ pc' = "read"
    /\ clock' = clock + d
    /\ UNCHANGED <<globals, locals_but_pc, files, threads, printed, consumers,
                   requests, history, main>>

(***************************************************************************)
(* generate_video_feed, one generator per stream consumer.                 *)
(***************************************************************************)
\* with lock:
ConsumerAcquire(c) ==
    /\ cpc[c] = "acquire"
    /\ CanAcquire(lock)
    /\ lock' = c
    /\ cpc' = [cpc EXCEPT ![c] = "check"]
    /\ UNCHANGED <<camera, output_frame, motion_detected, last_motion_time,
                   frame_count, motion_events, settings, locals, world,
                   encoded_image, yielded, requests, history, main>>

\* Mutant of HasFrame: the consumer does not test for None.
HasFrameAlways(f) == TRUE

\* The test of line 233 passes: output_frame is not None.
HasFrame(f) == f # None

\* if output_frame is None: continue (the with block ends, the lock is freed)
ConsumerNoFrame(c) ==
    /\ cpc[c] = "check"
    /\ ~HasFrame(output_frame)
    /\ lock' = "free"
    /\ cpc' = [cpc EXCEPT ![c] = "acquire"]
    /\ UNCHANGED <<camera, output_frame, motion_detected, last_motion_time,
                   frame_count, motion_events, settings, locals, world,
                   encoded_image, yielded, requests, history, main>>

\* (flag, encoded_image) = cv2.imencode(".jpg", output_frame) with flag true
ConsumerEncode(c) ==
    /\ cpc[c] = "check"
    /\ HasFrame(output_frame)
    /\ encoded_image' = [encoded_image EXCEPT ![c] = imencode(output_frame)]
    /\ cpc' = [cpc EXCEPT ![c] = "encoded"]
    /\ UNCHANGED <<globals, locals, world, yielded, requests, history, main>>

\* cv2.imencode returns flag false: continue (the lock is freed)
ConsumerEncodeFails(c) ==
    /\ cpc[c] = "check"
    /\ HasFrame(output_frame)
    /\ encoded_image' = [encoded_image EXCEPT ![c] = None]
    /\ lock' = "free"
    /\ cpc' = [cpc EXCEPT ![c] = "acquire"]
    /\ UNCHANGED <<camera, output_frame, motion_detected, last_motion_time,
                   frame_count, motion_events, settings, locals, world,
                   yielded, requests, history, main>>

\* end of the with block
ConsumerRelease(c) ==
    /\ cpc[c] = "encoded"
    /\ lock' = "free"
    /\ cpc' = [cpc EXCEPT ![c] = "yield"]
    /\ UNCHANGED <<camera, output_frame, motion_detected, last_motion_time,
                   frame_count, motion_events, settings, locals, world,
                   encoded_image, yielded, requests, history, main>>

\* yield(b'--frame...' + bytearray(encoded_image) + b'\r\n')
ConsumerYield(c) ==
    /\ cpc[c] = "yield"
    /\ yielded' = [yielded EXCEPT ![c] = encoded_image[c]]
    /\ cpc' = [cpc EXCEPT ![c] = "acquire"]
    /\ UNCHANGED <<globals, locals, world, encoded_image, requests, history, main>>

(***************************************************************************)
(* send_email_alert and send_sms_alert, each in a thread of its own.       *)
(***************************************************************************)
\* The thread returns without having tried to send.
Finished(t, result) == [t EXCEPT !.pc = "done", !.result = result]

\* The thread returns from its try block: it has tried to send once.
Attempted(t, result) ==
    [t EXCEPT !.pc = "done", !.result = result, !.attempts = @ + 1]

\* if not settings['email']['enabled']: return False
EmailCheck(t) ==
    /\ t \in threads
    /\ t.target = "send_email_alert"
    /\ t.pc = "start"
    /\ threads' = (threads \ {t}) \cup
                    {IF Enabled(t.target) THEN [t EXCEPT !.pc = "send"]
                     ELSE Finished(t, "disabled")}
    /\ UNCHANGED <<globals, locals, clock, files, printed, consumers,
                   requests, history, main>>

\* Lines 96-117: the image is read and the message sent; return True.
EmailSend(t) ==
    /\ t \in threads
    /\ t.target = "send_email_alert"
    /\ t.pc = "send"
    /\ \E x \in files : x.path = t.arg
    /\ threads' = (threads \ {t}) \cup {Attempted(t, "sent")}
    /\ UNCHANGED <<globals, locals, clock, files, printed, consumers,
                   requests, history, main>>

\* Mutant of EmailFail: after a failed send the thread tries again.
EmailFailRetries(t) ==
    /\ t \in threads
    /\ t.target = "send_email_alert"
    /\ t.pc = "send"
    /\ threads' = (threads \ {t}) \cup {[t EXCEPT !.attempts = @ + 1]}
    /\ printed' = printed \cup {"Email error"}
    /\ UNCHANGED <<globals, locals, clock, files, consumers, requests, history,
                   main>>

\* Lines 118-120: open() or the SMTP exchange raised; the exception is
\* caught and printed; return False.
EmailFail(t) ==
    /\ t \in threads
    /\ t.target = "send_email_alert"
    /\ t.pc = "send"
    /\ threads' = (threads \ {t}) \cup {Attempted(t, "failed")}
    /\ printed' = printed \cup {"Email error"}
    /\ UNCHANGED <<globals, locals, clock, files, consumers, requests, history,
                   main>>

\* if not settings['twilio']['enabled']: return False
SmsCheck(t) ==
    /\ t \in threads
    /\ t.target = "send_sms_alert"
    /\ t.pc = "start"
    /\ threads' = (threads \ {t}) \cup
                    {IF Enabled(t.target) THEN [t EXCEPT !.pc = "send"]
                     ELSE Finished(t, "disabled")}
    /\ UNCHANGED <<globals, locals, clock, files, printed, consumers,
                   requests, history, main>>

\* Mutant of SmsSend: the SMS goes out only once the email of the event did.
SmsSendAfterEmail(t) ==
    /\ t \in threads
    /\ t.target = "send_sms_alert"
    /\ t.pc = "send"
    /\ \E e \in threads :
         /\ e.target = "send_email_alert"
         /\ e.arg.name = t.arg.name
         /\ e.result = "sent"
    /\ threads' = (threads \ {t}) \cup {Attempted(t, "sent")}
    /\ UNCHANGED <<globals, locals, clock, files, printed, consumers,
                   requests, history, main>>

\* Lines 127-134: the message is created; return True.
SmsSend(t) ==
    /\ t \in threads
    /\ t.target = "send_sms_alert"
    /\ t.pc = "send"
    /\ threads' = (threads \ {t}) \cup {Attempted(t, "sent")}
    /\ UNCHANGED <<globals, locals, clock, files, printed, consumers,
                   requests, history, main>>

\* Lines 135-137: the Twilio client raised; caught and printed; return False.
SmsFail(t) ==
    /\ t \in threads
    /\ t.target = "send_sms_alert"
    /\ t.pc = "send"
    /\ threads' = (threads \ {t}) \cup {Attempted(t, "failed")}
    /\ printed' = printed \cup {"SMS error"}
    /\ UNCHANGED <<globals, locals, clock, files, consumers, requests, history,
                   main>>

(***************************************************************************)
(* get_motion_events, in a request thread.                                 *)
(***************************************************************************)
\* A request arrives: time.sleep(0.1)
QueryStart ==
    /\ rpc = "idle"
    /\ rpc' = "sleep"
    /\ response' = None
    /\ UNCHANGED <<globals, locals, world, consumers, upc, form, posts, history,
                   main>>

\* jsonify(motion_events)
jsonify(events) == [kind |-> "json", body |-> events]

\* return jsonify(motion_events)
QueryRead ==
    /\ rpc = "sleep"
    /\ response' = jsonify(motion_events)
    /\ rpc' = "idle"
    /\ UNCHANGED <<globals, locals, world, consumers, upc, form, posts, history,
                   main>>

(***************************************************************************)
(* update_settings, in a request thread.                                   *)
(***************************************************************************)
\* A POST arrives with its form.
UpdateStart(e, t) ==
    /\ upc = "idle"
    /\ form' = [email_enabled |-> e, twilio_enabled |-> t]
    /\ upc' = "email"
    /\ posts' = posts + 1
    /\ UNCHANGED <<globals, locals, world, consumers, rpc, response, history, main>>

\* settings['email']['enabled'] = 'email_enabled' in request.form
UpdateEmail ==
    /\ upc = "email"
    /\ settings' = [settings EXCEPT !.email = form.email_enabled]
    /\ upc' = "twilio"
    /\ UNCHANGED <<camera, output_frame, lock, motion_detected,
                   last_motion_time, frame_count, motion_events, locals, world,
                   consumers, rpc, response, form, posts, history, main>>

\* settings['twilio']['enabled'] = 'twilio_enabled' in request.form
UpdateTwilio ==
    /\ upc = "twilio"
    /\ settings' = [settings EXCEPT !.twilio = form.twilio_enabled]
    /\ upc' = "idle"
    /\ form' = None
    /\ UNCHANGED <<camera, output_frame, lock, motion_detected,
                   last_motion_time, frame_count, motion_events, locals, world,
                   consumers, rpc, response, posts, history, main>>

(***************************************************************************)
(* __main__: the acquisition thread is a daemon thread and app.run() serves *)
(* until the process is asked to shut down.                                *)
(***************************************************************************)
\* The process is asked to shut down (an interrupt ends app.run()): nothing
\* that generate_frames reads changes.
ShutdownRequest ==
    /\ shutdown_at = NotRequested
    /\ shutdown_at' = frame_count
    /\ UNCHANGED <<globals, locals, world, consumers, requests, history,
                   track_dispatch>>

(***************************************************************************)
(* Specifications.                                                         *)
(***************************************************************************)
\* The steps of the acquisition thread other than its reads of the camera,
\* its write of the snapshot and its sleep.
Process ==
    \/ OpenCamera
    \/ OpenCameraNotOpened
    \/ OpenCameraRaises
    \/ BlankAcquire
    \/ BlankWrite
    \/ BlankRelease
    \/ \E f \in CameraFrames \cup {None} : FirstRead(f)
    \/ DetectRaises
    \/ Detect
    \/ Debounce
    \/ Insert
    \/ Trim
    \/ StartEmail
    \/ StartSms
    \/ PublishAcquire
    \/ PublishWrite
    \/ PublishRelease
    \/ Count

\* The acquisition thread alone, with a clock that ticks in seconds.
Next ==
    \/ Process
    \/ \E ok \in BOOLEAN : Save(ok)
    \/ frame_count < MaxReads /\ \E f \in CameraFrames : ReadOk(f)
    \/ frame_count < MaxReads /\ ReadFail
    \/ Sleep(0)
    \/ clock < MaxTime /\ Tick(1)

Spec == Init /\ [][Next]_vars

\* The acquisition thread and the stream consumers.
NextStream ==
    \/ Process
    \/ \E ok \in BOOLEAN : Save(ok)
    \/ frame_count < StreamMaxReads /\ \E f \in CameraFrames : ReadOk(f)
    \/ frame_count < StreamMaxReads /\ ReadFail
    \/ Sleep(0)
    \/ \E c \in Consumers : ConsumerAcquire(c)
    \/ \E c \in Consumers : ConsumerNoFrame(c)
    \/ \E c \in Consumers : ConsumerEncode(c)
    \/ \E c \in Consumers : ConsumerEncodeFails(c)
    \/ \E c \in Consumers : ConsumerRelease(c)
    \/ \E c \in Consumers : ConsumerYield(c)

SpecStream == Init /\ [][NextStream]_vars

\* The acquisition thread, the notifier threads and update_settings; the
\* loop's first sleep lets no time or one cooldown pass.
NextNotify ==
    \/ Process
    \/ \E ok \in BOOLEAN : Save(ok)
    \/ frame_count < NotifyMaxReads /\ \E f \in CameraFrames : ReadOk(f)
    \/ frame_count < NotifyMaxReads /\ ReadFail
    \/ Sleep(0)
    \/ clock = 0 /\ Sleep(Cooldown + 1)
    \/ \E t \in threads : EmailCheck(t)
    \/ \E t \in threads : EmailSend(t)
    \/ \E t \in threads : EmailFail(t)
    \/ \E t \in threads : SmsCheck(t)
    \/ \E t \in threads : SmsSend(t)
    \/ \E t \in threads : SmsFail(t)
    \/ posts < MaxPosts /\ \E e \in BOOLEAN, t \in BOOLEAN : UpdateStart(e, t)
    \/ UpdateEmail
    \/ UpdateTwilio

SpecNotify == Init /\ [][NextNotify]_vars

\* The same threads, with the history of the enabled flags at thread start.
SpecDispatch == InitDispatch /\ [][NextNotify]_vars

\* The number of processed frames without motion so far.
Quiet == frame_count \div 2 - Len(detections)

\* The acquisition thread on a long run: every sleep of the loop lasts
\* LogStep seconds, at most quiet processed frames show no motion and every
\* snapshot is written.
LongRun(quiet) ==
    \/ Process
    \/ Save(TRUE)
    \/ /\ frame_count < LogMaxReads
       /\ \E f \in CameraFrames :
            /\ ReadOk(f)
            /\ (frame_count % 2 = 0 /\ prev_frame # None
                  /\ ~detect_motion(prev_frame, f).motion) => Quiet < quiet
    \/ frame_count < LogMaxReads /\ ReadFail
    \/ Sleep(LogStep)

NextLog == LongRun(MaxQuiet)

SpecLog == Init /\ [][NextLog]_vars

\* The long run of the acquisition thread, and get_motion_events.
NextQuery ==
    \/ LongRun(QueryMaxQuiet)
    \/ QueryStart
    \/ QueryRead

SpecQuery == Init /\ [][NextQuery]_vars

\* The steps the acquisition thread takes on its own, once the camera has
\* delivered a frame: the thread is scheduled again and again, and
\* cv2.imwrite and time.sleep return.
LoopStep ==
    \/ Process
    \/ \E ok \in BOOLEAN : Save(ok)
    \/ Sleep(0)

\* The acquisition thread alone; its first sleep lets no time or one cooldown
\* pass.
NextLoop ==
    \/ LoopStep
    \/ frame_count < MaxReads /\ \E f \in CameraFrames : ReadOk(f)
    \/ frame_count < MaxReads /\ ReadFail
    \/ clock = 0 /\ Sleep(Cooldown + 1)

\* The acquisition thread is scheduled fairly; the camera is not: a read may
\* never return.
FairSpec == Init /\ [][NextLoop]_vars /\ WF_vars(LoopStep)

\* The acquisition thread, and a request to shut the process down.
NextShutdown ==
    \/ NextLoop
    \/ ShutdownRequest

SpecShutdown == Init /\ [][NextShutdown]_vars

\* The steps of one stream consumer once it holds the lock or has left it.
ConsumerStep(c) ==
    \/ ConsumerNoFrame(c)
    \/ ConsumerEncode(c)
    \/ ConsumerRelease(c)
    \/ ConsumerYield(c)

\* The acquisition thread and the stream consumers under fair scheduling:
\* every thread is scheduled again and again, a thread that asks for the
\* lock again and again gets it, the camera delivers a frame when it is read
\* and cv2.imencode succeeds when it is tried again and again.
FairStream ==
    /\ Init
    /\ [][NextStream]_vars
    /\ WF_vars(LoopStep)
    /\ SF_vars(BlankAcquire)
    /\ SF_vars(PublishAcquire)
    /\ WF_vars(frame_count < StreamMaxReads /\ \E f \in CameraFrames : ReadOk(f))
    /\ \A c \in Consumers :
         /\ SF_vars(ConsumerAcquire(c))
         /\ SF_vars(ConsumerEncode(c))
         /\ WF_vars(ConsumerStep(c))

\* detect_motion on every pair of frames: one call of line 175.
NextDetect == Detect

SpecDetect == InitDetect /\ [][NextDetect]_vars

(***************************************************************************)
(* Properties.                                                             *)
(***************************************************************************)
\* The current_time of the events created so far, oldest first.
CreatedTimes == [i \in 1..Len(created) |-> created[i].time]

\* C1: at the end of every iteration of the acquisition loop, that is
\* everywhere but between the insertion of line 203 and the truncation of
\* line 210, motion_events holds at most 20 entries.
C1_LogWithinCap == pc # "trim" => Len(motion_events) <= 20

\* More than 20 events were created and an iteration has ended with a full
\* log.
C1_Witness == pc = "sleep" /\ Len(created) > 20 /\ Len(motion_events) = 20

\* The detections among d, oldest first, that create an event under a
\* cooldown of 5 seconds: the first one, and every one more than 5 seconds
\* after the last one that created an event.
Debounced(d) ==
    LET kept[i \in 0..Len(d)] ==
          IF i = 0 THEN <<>>
          ELSE LET before == kept[i - 1]
               IN IF before = <<>> \/ d[i] - before[Len(before)] > 5
                  THEN Append(before, d[i])
                  ELSE before
    IN kept[Len(d)]

\* C2: once the iteration of a detection is past the insertion, the events
\* created are those of the detections that came with no event created yet
\* or more than 5 seconds after the last created event; any two created
\* events are more than 5 seconds apart.
C2_Cooldown ==
    /\ pc \notin {"save", "insert"} => CreatedTimes = Debounced(detections)
    /\ \A i, j \in 1..Len(created) :
         i < j => created[j].time - created[i].time > 5

\* Detections at t0, t0 + 1 and t0 + 6 made two events, at t0 and t0 + 6.
C2_Witness ==
    \E t0 \in 0..MaxTime :
        /\ detections = <<t0, t0 + 1, t0 + 6>>
        /\ CreatedTimes = <<t0, t0 + 6>>
        /\ Len(motion_events) = 2

\* C3: a consumer that reads output_frame before any publish finds None and
\* neither encodes nor yields anything; a consumer that has read the frame
\* holds the encoding of the frame published last, until it leaves the
\* lock; what it yields is the encoding of a published frame.
C3_ReadSeesLatest ==
    \A c \in Consumers :
        /\ output_frame = None =>
             encoded_image[c] = None /\ yielded[c] = None
        /\ cpc[c] = "encoded" => encoded_image[c] = imencode(output_frame)
        /\ yielded[c] # None => yielded[c].kind = "jpeg" /\ yielded[c].data # None

\* A consumer that yielded an earlier frame has now read the frame published
\* after it.
C3_Witness ==
    \E c \in Consumers :
        /\ cpc[c] = "encoded"
        /\ output_frame.kind = "annotated"
        /\ yielded[c] # None
        /\ yielded[c] # encoded_image[c]

\* C6: output_frame is written and read only by the thread that holds the
\* lock, so no consumer reads it while the acquisition thread writes it and
\* no two threads are inside the lock together.
C6_LockedAccess ==
    /\ pc \in {"blank_write", "blank_release", "pub_write", "pub_release"}
         => lock = "loop"
    /\ \A c \in Consumers : cpc[c] \in {"check", "encoded"} => lock = c

\* One consumer reads the frame while the acquisition thread and the other
\* consumer wait for the lock.
C6_Witness ==
    /\ pc = "pub_lock"
    /\ cpc["c1"] = "encoded"
    /\ cpc["c2"] = "acquire"
    /\ output_frame.kind = "annotated"

\* The camera could not be opened: isOpened() was false or VideoCapture
\* raised.
CameraUnavailable == pc \notin {"init", "blank_lock", "blank_write"} /\ camera # "opened"

\* C9: when the camera cannot be opened the placeholder is published before
\* generate_frames returns, every read of a consumer after that finds the
\* placeholder, and no motion event is created.
C9_Placeholder ==
    /\ CameraUnavailable =>
         /\ output_frame = blank_frame
         /\ \A c \in Consumers :
              cpc[c] = "encoded" => encoded_image[c] = imencode(blank_frame)
    /\ camera # "opened" =>
         motion_events = <<>> /\ created = <<>> /\ threads = {}

\* The camera was not opened, generate_frames has returned and both consumers
\* yielded the placeholder.
C9_Witness ==
    /\ camera = "unopened"
    /\ pc = "returned"
    /\ \A c \in Consumers : yielded[c] = imencode(blank_frame)

\* cv2.imwrite did not write the snapshot of the event of this iteration.
SnapshotMissing ==
    filename # None /\ ~\E x \in files : x.path = MakeFilepath(filename)

\* The frame of this iteration has been published.
Published == pc = "count" /\ output_frame = frame_with_contours

\* C4: when the snapshot of an event could not be written, the acquisition
\* thread still publishes the frame of that iteration and then reaches the
\* head of the loop for its next iteration.
C4_SaveFailureDoesNotStopLoop ==
    /\ SnapshotMissing ~> Published
    /\ (pc = "count") ~> (pc = "read")

\* The loop processes a later frame; the newest event has no snapshot.
C4_Witness ==
    /\ pc = "detect"
    /\ motion_events # <<>>
    /\ ~\E x \in files : x.path = motion_events[1].path
    /\ output_frame.stamp = motion_events[1].timestamp

\* C8 as claimed: with the camera opened, generate_frames never returns.
C8_FailedReadSkipped == camera = "opened" => pc # "returned"

\* The threads started for the same event as t, by the other notifier.
Siblings(t) == {s \in threads : s.target # t.target /\ s.arg.name = t.arg.name}

\* Thread s can take the step that completes its part: its test of the
\* enabled flag, or a send that succeeds (for the email, given its image).
CanComplete(s) ==
    /\ (s.target = "send_email_alert" /\ s.pc = "start") => ENABLED EmailCheck(s)
    /\ (s.target = "send_sms_alert" /\ s.pc = "start") => ENABLED SmsCheck(s)
    /\ (s.target = "send_sms_alert" /\ s.pc = "send") => ENABLED SmsSend(s)
    /\ (s.target = "send_email_alert" /\ s.pc = "send"
          /\ \E x \in files : x.path = s.arg) => ENABLED EmailSend(s)

\* C5: when the send of one notifier has failed, the thread of the other
\* notifier for the same event is started, or about to be started by the
\* loop, and nothing keeps it from completing its send; the acquisition
\* thread has not ended with an exception.
C5_FailureIsolated ==
    \A t \in threads :
        t.result = "failed" =>
            /\ Siblings(t) = {} =>
                 /\ t.target = "send_email_alert"
                 /\ pc = "sms"
                 /\ filename = t.arg.name
            /\ \A s \in Siblings(t) : CanComplete(s)
            /\ pc # "crashed"

\* For one event the email failed and the SMS was sent.
C5_Witness ==
    \E t \in threads :
        /\ t.target = "send_email_alert"
        /\ t.result = "failed"
        /\ \E s \in Siblings(t) : s.result = "sent"

\* C10: from the start of the notifier threads to the end of the iteration
\* the acquisition thread can take its next step, whatever the notifier
\* threads do and also when they never finish; the lock is held by nobody
\* or by the acquisition thread.
C10_LoopNeverWaits ==
    /\ pc \in {"email", "sms", "pub_lock", "pub_write", "pub_release",
               "count", "sleep"} => ENABLED LoopStep
    /\ lock \in {"free", "loop"}

\* The loop is in a later iteration and has published a later frame while
\* both sends of the first event are still under way.
C10_Witness ==
    /\ pc = "detect"
    /\ frame_count = 2
    /\ Len(motion_events) = 1
    /\ output_frame.stamp = motion_events[1].timestamp
    /\ Cardinality(threads) = 2
    /\ \A t \in threads : t.pc = "send"

\* C7 as claimed: every response of get_motion_events holds at most 20
\* events, newest first, and never the log as it is between the insertion
\* of an event and the eviction of the oldest one.
C7_ConsistentRead ==
    response # None =>
        /\ Len(response.body) <= 20
        /\ \A i, j \in 1..Len(response.body) :
             i < j => response.body[i].timestamp.second
                        >= response.body[j].timestamp.second

\* The threads started so far for one notifier.
ThreadsOf(target) == {t \in threads : t.target = target}

\* The created events for which the loop has not yet reached the start of the
\* thread of that notifier: the event of the current iteration, or none.
NotYetStarted(target) ==
    IF \/ pc \in {"trim", "email"}
       \/ pc = "sms" /\ target = "send_sms_alert"
    THEN 1 ELSE 0

\* C11: every notifier thread tries its send at most once, also after a
\* failure, and each notifier has exactly one thread per created event, so a
\* detection without an event (no motion, or inside the cooldown) starts no
\* thread and no send.
C11_AtMostOneAttempt ==
    /\ \A t \in threads :
         /\ t.attempts <= 1
         /\ t.result = "failed" => t.pc = "done"
    /\ \A target \in {"send_email_alert", "send_sms_alert"} :
         Cardinality(ThreadsOf(target)) = Len(created) - NotYetStarted(target)

\* Two detections, the second inside the cooldown, made one event; its email
\* failed after one attempt and both threads have returned.
C11_Witness ==
    /\ Len(detections) = 2
    /\ Len(created) = 1
    /\ pc = "sleep"
    /\ Cardinality(threads) = 2
    /\ \A t \in threads : t.pc = "done" /\ t.attempts = 1
    /\ \E t \in threads : t.target = "send_email_alert" /\ t.result = "failed"

\* The k events created last, newest first.
NewestFirst(k) ==
    [i \in 1..k |-> created[Len(created) + 1 - i].event]

Min(a, b) == IF a < b THEN a ELSE b

\* C12: after n created events, once the truncation of the iteration has
\* run, motion_events holds exactly the min(n, 20) events created last,
\* newest first; right after the insertion the new event is at the head and
\* the older ones follow in their order.
C12_NewestFirst ==
    /\ pc # "trim" => motion_events = NewestFirst(Min(Len(created), 20))
    /\ pc = "trim" => motion_events = NewestFirst(Min(Len(created), 21))

\* The 21st event has been inserted and the first one evicted: the log starts
\* with the 21st and ends with the 2nd.
C12_Witness ==
    /\ pc = "email"
    /\ Len(created) = 21
    /\ motion_events[1] = created[21].event
    /\ motion_events[20] = created[2].event
    /\ created[1].event # created[2].event

\* The diagnostics of the camera and of the notifiers.
OtherDiagnostics ==
    {"Error: Could not open camera.", "Camera error", "Email error", "SMS error"}

\* C13 as claimed: once the iteration of an event whose snapshot was not
\* written is past line 207, motion_events holds no record of that event and
\* a diagnostic of the failure has been printed.
C13_FailedSaveDropsEvent ==
    (pc \in {"trim", "email", "sms", "pub_lock", "pub_write", "pub_release",
             "count"} /\ SnapshotMissing) =>
        /\ \A i \in 1..Len(motion_events) :
             motion_events[i].path # MakeFilepath(filename)
        /\ printed \ OtherDiagnostics # {}

\* C14 as claimed, the part on the loop: after a request to shut down, the
\* acquisition loop ends the iteration it is in and completes at most one
\* more before it leaves the loop.  (Nothing in generate_frames releases the
\* camera either: camera is never anything but None, unopened or opened.)
C14_ShutdownStopsLoop ==
    shutdown_at # NotRequested => frame_count <= shutdown_at + 1

\* The acquisition thread is between the annotation of a processed frame
\* and the end of the iteration of that frame.
Annotated ==
    /\ frame_count % 2 = 0
    /\ pc \in {"debounce", "save", "insert", "trim", "email", "sms",
               "pub_lock", "pub_write", "pub_release", "count"}

\* C15: the captured frame stays as the camera delivered it while its copy
\* is annotated; the previous frame is that raw frame, every snapshot is a
\* raw frame and the snapshot of the current event is the current frame;
\* what is published is the annotated copy.
C15_AnnotationOnCopy ==
    /\ frame \in CameraFrames \cup {None}
    /\ prev_frame \in CameraFrames \cup {None}
    /\ Annotated =>
         /\ prev_frame = frame
         /\ frame_with_contours = Annotate(frame, contours, timestamp)
    /\ \A x \in files : x.content \in CameraFrames
    /\ (pc \in {"insert", "trim", "email", "sms"} /\ ~SnapshotMissing) =>
         \E x \in files : x.path = MakeFilepath(filename) /\ x.content = frame
    /\ output_frame \notin CameraFrames
    /\ (Annotated /\ pc \in {"pub_release", "count"}) =>
         output_frame = Annotate(frame, contours, timestamp)

\* An event's frame has been published with its contours drawn while its
\* snapshot and the previous frame are the frame without them.
C15_Witness ==
    /\ pc = "count"
    /\ output_frame = Annotate(Intruder, {"large"}, timestamp)
    /\ prev_frame = Intruder
    /\ \E x \in files : x.path = MakeFilepath(filename) /\ x.content = Intruder

\* C16 as claimed: a thread that is in its try block or has tried its send
\* belongs to a notifier that was enabled when the loop started the thread.
C16_EnabledAtDispatch ==
    track_dispatch =>
        \A t \in threads :
            (t.pc = "send" \/ t.attempts > 0) => t.dispatched_enabled

\* C17: on two identical frames detect_motion finds no contour, a changed
\* area of 0 and no motion; on any two frames it reports motion exactly when
\* the areas of the contours it returns add up to more than 5000.
C17_DetectMotion ==
    [][(pc = "detect" /\ pc' = "debounce") =>
          /\ prev_frame = frame =>
                contours' = {} /\ SumArea(contours') = 0 /\ motion' = FALSE
          /\ motion' = (SumArea(contours') > 5000)]_vars

\* The changed area is exactly the threshold and no motion is reported.
C17_Witness ==
    /\ pc = "debounce"
    /\ contours = {"edge"}
    /\ SumArea(contours) = 5000
    /\ motion = FALSE

\* The acquisition thread is at line 190 with a positive detection no more
\* than 5 seconds after the last created event.
InCooldown ==
    /\ pc = "debounce"
    /\ motion
    /\ last_motion_time # NoTime
    /\ clock - last_motion_time <= 5

\* What the creation of an event writes.
EventEffects == <<motion_detected, last_motion_time, motion_events, files, threads>>

\* C18: the step of the loop on a positive detection inside the cooldown
\* goes straight to the publication of the frame and leaves last_motion_time,
\* the event log, the snapshots and the notifier threads as they are; the
\* steps from there to the next detection leave them too, so the cooldown
\* still runs from the last created event.
C18_SuppressedIgnored ==
    [][/\ (InCooldown /\ pc' # pc) =>
            pc' = "pub_lock" /\ UNCHANGED EventEffects
       /\ pc \in {"pub_lock", "pub_write", "pub_release", "count", "sleep",
                  "read", "detect"} =>
            UNCHANGED EventEffects]_vars

\* The detection 5 seconds after the first event was suppressed and the one
\* a second later, 6 seconds after the first event, created the second
\* event.
C18_Witness ==
    \E t0 \in 0..MaxTime :
        /\ detections = <<t0, t0 + 5, t0 + 6>>
        /\ CreatedTimes = <<t0, t0 + 6>>
        /\ last_motion_time = t0 + 6
        /\ pc = "count"

\* C19: while frame_count is odd (the iteration of a skipped frame) the loop
\* goes from the read to the count and the previous frame, the published
\* frame, the event log, the cooldown, the snapshots and the threads stay as
\* they are; on a processed frame detect_motion compares the previous frame
\* with the current one, the current one becomes the previous frame, and the
\* previous frame is the frame processed and published last, not a skipped
\* one.
C19_Throttle ==
    [][/\ frame_count % 2 = 1 =>
            /\ UNCHANGED <<prev_frame, output_frame, EventEffects>>
            /\ pc' \in {"sleep", "read", "count", "returned"}
       /\ (pc = "detect" /\ pc' = "debounce") =>
            /\ motion' = detect_motion(prev_frame, frame).motion
            /\ contours' = detect_motion(prev_frame, frame).contours
            /\ prev_frame' = frame
       /\ (pc = "detect" /\ frame_count >= 2) =>
            output_frame.base = prev_frame]_vars

\* A skipped frame showed the intruder; the previous frame and the published
\* frame are still the empty scene processed before it.
C19_Witness ==
    /\ pc = "count"
    /\ frame_count = 1
    /\ frame = Intruder
    /\ prev_frame = Still
    /\ output_frame.base = Still

\* C20 as claimed: once output_frame holds a frame it never holds None
\* again; a consumer that waits for the lock does not hold it, also after it
\* found no frame; and with the acquisition thread started every consumer
\* eventually yields a frame.
C20_ConsumersEventuallyYield ==
    /\ [][output_frame # None => output_frame' # None]_vars
    /\ [](\A c \in Consumers : cpc[c] \in {"acquire", "yield"} => lock # c)
    /\ \A c \in Consumers : <>(yielded[c] # None)

=============================================================================
